---- MODULE Spec2Model ----
(***************************************************************************)
(* The log-processor coordinator (kafka/log_processor/manager.py) and its  *)
(* worker processes (kafka/log_processor/worker.py).                       *)
(*                                                                         *)
(* One coordinating process runs process_logs -> produce_work, which       *)
(* pushes Kafka records on work_queue and, at batch boundaries, runs a     *)
(* scaling pass (check_worker_health, check_workload, adjust_worker_count).*)
(* Every Worker is an OS process running Worker.run; processes only share  *)
(* the two multiprocessing queues, so every queue operation is one atomic  *)
(* step and the steps of different processes interleave freely.            *)
(***************************************************************************)
EXTENDS Integers, Sequences, FiniteSets, TLC

(* ------------------------------ bounds -------------------------------- *)

\* Worker processes ever created (Process names are never reused).
MaxSpawn == 3

\* multiprocessing.cpu_count() of the host.
CpuCount == 1

\* The depth thresholds of check_workload and the cadence of produce_work,
\* scaled down so that every regime is reached with a short queue.  The
\* source's values are 100, 10, 5000 records and 30 seconds; the order
\* DepthLow <= PRODUCE_BEFORE_CHECKING and DepthLow < DepthHigh is kept.
DepthHigh == 2
DepthLow == 1
PRODUCE_BEFORE_CHECKING == 2
PRODUCE_INTERVAL == 1

\* ControlMessages waiting on idle_queue when check_worker_health is
\* studied on its own.
MaxMsgs == 2

\* The deepest work_queue check_workload is given when it is studied on
\* its own (above the threshold of line 71).
MaxDepth == 102

(* ------------------------- program constants -------------------------- *)

SCALE_UP_BY == 2
SCALE_DOWN_BY == -1
MAX_WORKERS == 2 * CpuCount
SENTINEL == "TERMINATE YOU USELESS PROCESS"

\* check_workload line 71 and 77: the depths above which the pool is scaled
\* up and below which it is scaled down.
SCALE_UP_DEPTH == 100
SCALE_DOWN_DEPTH == 10

\* A record pulled out of Kafka (event.value); the coordinator never looks
\* inside it.
REC == "record"

\* Room in work_queue before the producer is held back (bounds the model;
\* always above DepthHigh so that the scale-up regime is reached).
MaxQueue == DepthHigh + 1

\* Worker (process) names: BaseProcess numbers them Name-1, Name-2, ...
Names == 1..MaxSpawn

\* '{}'.format(doh) of an exception: the text may be empty (Exception()).
ExcTexts == {"", "err"}
NoExc == "none"

\* The text of an exception of flush_on_term caught at line 52 (it is only
\* logged, line 53).
UGH == "ugh"

\* No call is studied on its own: the whole program runs.
NoCall == [fn |-> "none"]

\* Nothing outside the coordinator and Worker.run is studied.
NoComp == [kind |-> "none"]

VARIABLES
  pl_workers,      \* process_logs: its `workers` list (manager.py:249)
  workers,         \* produce_work: its local `workers`
  produced,        \* produce_work: records pushed since the batch boundary
  elapsed,         \* time.time() - produce_start, capped above the interval
  scale_modifier,  \* check_workload: the scalier of check_worker_health
  need,            \* produce_work: the need returned by check_workload
  mpc,             \* where the coordinator is
  work_queue,      \* multiprocessing.Queue of records and SENTINELs
  idle_queue,      \* multiprocessing.Queue of (name, error) tuples
  wpc,             \* where each worker process is in Worker.run
  doh,             \* Worker.run: the exception caught at line 49
  nextName,        \* the next process number
  hist,            \* per worker: what it did so far (observation only)
  given,           \* the arguments of a call studied on its own
                   \* (observation only)
  comp             \* what lies outside the coordinator and Worker.run when
                   \* it is studied: the document store of the LogWorker,
                   \* the InfluxDB client, the log exporter

vars == <<pl_workers, workers, produced, elapsed, scale_modifier, need, mpc,
          work_queue, idle_queue, wpc, doh, nextName, hist, given, comp>>

mgrVars == <<pl_workers, workers, produced, elapsed, scale_modifier, need,
             mpc, nextName, given, comp>>

(* ------------------------------ helpers ------------------------------- *)

Range(s) == {s[i] : i \in 1..Len(s)}

Max(a, b) == IF a > b THEN a ELSE b

Min(a, b) == IF a < b THEN a ELSE b

\* Number of SENTINELs waiting in a queue.
Markers(q) == Cardinality({i \in 1..Len(q) : q[i] = SENTINEL})

\* Worker processes that were started and have not left Worker.run.
Running == {w \in Names : wpc[w] \notin {"unborn", "exited"}}

\* <<first, ..., last>> (empty when last < first).
Interval(first, last) == [i \in 1..Max(0, last - first + 1) |-> first + i - 1]

(* --------------------------- Worker.run ------------------------------- *)

\* A queue that hands out the item put last.
received_last(q) == q[Len(q)]

\* multiprocessing.Queue.get: the item a receive returns is the oldest one.
received(q) == Head(q)

\* line 42-44/48: data = self.work_queue.get(block=True); the SENTINEL test.
WGet(w) ==
  /\ wpc[w] = "get"
  /\ work_queue # <<>>
  /\ work_queue' = Tail(work_queue)
  /\ IF received(work_queue) = SENTINEL
       THEN /\ wpc' = [wpc EXCEPT ![w] = "term_put"]
            /\ hist' = [hist EXCEPT ![w] = Append(@, "sentinel")]
       ELSE /\ wpc' = [wpc EXCEPT ![w] = "process"]
            /\ UNCHANGED hist
  /\ UNCHANGED <<mgrVars, idle_queue, doh>>

\* line 45: self.idle_queue.put((self.name, '')), before the flush.
WTermPut(w) ==
  /\ wpc[w] = "term_put"
  /\ idle_queue' = Append(idle_queue, [worker |-> w, error |-> ""])
  /\ wpc' = [wpc EXCEPT ![w] = "term_flush"]
  /\ hist' = [hist EXCEPT ![w] = Append(@, "put_clean")]
  /\ UNCHANGED <<mgrVars, work_queue, doh>>

\* line 46-47: self.flush_on_term() returns, then break.
WTermFlushOk(w) ==
  /\ wpc[w] = "term_flush"
  /\ wpc' = [wpc EXCEPT ![w] = "exited"]
  /\ hist' = [hist EXCEPT ![w] = Append(@, "flush")]
  /\ UNCHANGED <<mgrVars, work_queue, idle_queue, doh>>

\* line 46, 49: self.flush_on_term() raises; the except clause of the same
\* try catches it as doh.
WTermFlushRaise(w) ==
  /\ wpc[w] = "term_flush"
  /\ \E e \in ExcTexts : doh' = [doh EXCEPT ![w] = e]
  /\ wpc' = [wpc EXCEPT ![w] = "exc_flush"]
  /\ hist' = [hist EXCEPT ![w] = Append(@, "flush")]
  /\ UNCHANGED <<mgrVars, work_queue, idle_queue>>

\* line 48: self.process_data(data) returns; next iteration.
WProcessOk(w) ==
  /\ wpc[w] = "process"
  /\ wpc' = [wpc EXCEPT ![w] = "get"]
  /\ UNCHANGED <<mgrVars, work_queue, idle_queue, doh, hist>>

\* line 48-49: self.process_data(data) raises doh.
WProcessRaise(w) ==
  /\ wpc[w] = "process"
  /\ \E e \in ExcTexts :
       /\ doh' = [doh EXCEPT ![w] = e]
       /\ hist' = [hist EXCEPT ![w] =
                     Append(@, IF e = "" THEN "raise_empty" ELSE "raise_text")]
  /\ wpc' = [wpc EXCEPT ![w] = "exc_flush"]
  /\ UNCHANGED <<mgrVars, work_queue, idle_queue>>

\* line 50-51, 56-57: the best-effort flush of the except clause returns;
\* the else clause logs doh.
WExcFlushOk(w) ==
  /\ wpc[w] = "exc_flush"
  /\ wpc' = [wpc EXCEPT ![w] = "exc_put"]
  /\ hist' = [hist EXCEPT ![w] = Append(@, "flush")]
  /\ UNCHANGED <<mgrVars, work_queue, idle_queue, doh>>

\* A handler in which the second exception takes the place of the first.
doh_masked(first, second) == second

\* line 52: the inner except clause binds its exception to ugh, so doh
\* still names the first one at line 59.
doh_after_flush(first, second) == first

\* line 50-53: the flush of the except clause raises; the inner except
\* clause catches it as ugh and logs it.
WExcFlushRaise(w) ==
  /\ wpc[w] = "exc_flush"
  /\ doh' = [doh EXCEPT ![w] = doh_after_flush(@, UGH)]
  /\ wpc' = [wpc EXCEPT ![w] = "exc_put"]
  /\ hist' = [hist EXCEPT ![w] = Append(@, "flush")]
  /\ UNCHANGED <<mgrVars, work_queue, idle_queue>>

\* line 59: '{}'.format(doh), the text the worker reports.
reported_error(w) == doh[w]

\* line 58-60: self.idle_queue.put((self.name, '{}'.format(doh))); break.
WExcPut(w) ==
  /\ wpc[w] = "exc_put"
  /\ idle_queue' = Append(idle_queue, [worker |-> w, error |-> reported_error(w)])
  /\ wpc' = [wpc EXCEPT ![w] = "exited"]
  /\ doh' = [doh EXCEPT ![w] = NoExc]
  /\ hist' = [hist EXCEPT ![w] =
                Append(@, IF reported_error(w) = "" THEN "put_clean" ELSE "put_error")]
  /\ UNCHANGED <<mgrVars, work_queue>>

(* ------------------------ check_worker_health ------------------------- *)

\* line 106-113: error_workers after the drain of every available message.
error_workers(q) == Cardinality({i \in 1..Len(q) : q[i].error # ""})

\* line 105-113: the names the drained messages bear.
terminated(q) == {q[i].worker : i \in 1..Len(q)}

\* line 116-117: the RuntimeError('All workers are dead; aborting').
all_dead(ws, q) == error_workers(q) = Len(ws)

\* A scalier that asks for a replacement whenever any worker reported.
scalier_any_report(ws, q) == IF Len(q) # 0 THEN 1 ELSE 0

\* A scalier that never asks for a replacement.
scalier_never(ws, q) == 0

\* line 104, 118-123: the scalier.
scalier(ws, q) == IF error_workers(q) # 0 THEN 1 ELSE 0

\* A reconciler that forgets only the workers that reported an error.
new_workers_crashed_only(ws, q) ==
  SelectSeq(ws, LAMBDA w : \A i \in 1..Len(q) : q[i].worker = w => q[i].error = "")

\* line 129-132: the workers whose name was not reported, in order.
new_workers(ws, q) == SelectSeq(ws, LAMBDA w : w \notin terminated(q))

(* --------------------------- check_workload --------------------------- *)

\* A baseline need whose thresholds include their own value.
needed_workers_inclusive(work_in_queue, hi, lo) ==
  IF work_in_queue >= hi THEN SCALE_UP_BY
  ELSE IF work_in_queue <= lo THEN SCALE_DOWN_BY
  ELSE 0

\* line 67-78: the baseline need for a pending depth; hi and lo are the
\* literals 100 and 10 of lines 71 and 77.
needed_workers(work_in_queue, hi, lo) ==
  IF work_in_queue > hi THEN SCALE_UP_BY
  ELSE IF work_in_queue < lo THEN SCALE_DOWN_BY
  ELSE 0

(* ------------------------- adjust_worker_count ------------------------ *)

\* A scale-down branch taken for a need of -1 only.
sends_sentinel_minus_one_only(ws, n) == n = -1 /\ Len(ws) > 1

\* A scale-down branch taken whatever the size of the pool.
sends_sentinel_any_pool(ws, n) == n < 0

\* line 157: the scale-down branch is taken.
sends_sentinel(ws, n) == n < 0 /\ Len(ws) > 1

\* A count of workers to create that ignores MAX_WORKERS.
to_make_uncapped(ws, n) == Max(0, n)

\* A count of workers to create that is never below one while there is
\* room under MAX_WORKERS.
to_make_eager(ws, n) == Min(Max(1, n), Max(0, MAX_WORKERS - Len(ws)))

\* line 161-163: how many workers the else branch creates (range() of a
\* negative number is empty).
to_make(ws, n) == Max(0, Min(n, Max(0, MAX_WORKERS - Len(ws))))

(* ------------------------- the coordinator ---------------------------- *)

\* A producer that runs a scaling pass at every batch boundary.
interval_elapsed_always(loop_delta) == TRUE

\* produce_work line 210: loop_delta > PRODUCE_INTERVAL.
interval_elapsed(loop_delta) == loop_delta > PRODUCE_INTERVAL

\* A producer that restarts the interval timer at every batch boundary.
timer_restarted_at_batch(loop_delta) == 0

\* produce_work line 206-210: at a batch boundary the time since
\* produce_start is read; produce_start itself is assigned at line 214 only.
timer_after_batch(loop_delta) == loop_delta

\* produce_work line 198-210: one record of the Kafka iterator.
Produce ==
  /\ mpc = "produce"
  /\ Len(work_queue) < MaxQueue
  /\ work_queue' = Append(work_queue, REC)
  /\ IF produced + 1 >= PRODUCE_BEFORE_CHECKING
       THEN /\ produced' = 0
            /\ elapsed' = timer_after_batch(elapsed)
            /\ mpc' = IF interval_elapsed(elapsed) THEN "health" ELSE "produce"
       ELSE /\ produced' = produced + 1
            /\ elapsed' = elapsed
            /\ mpc' = mpc
  /\ UNCHANGED <<given, comp, pl_workers, workers, scale_modifier, need, nextName,
                 idle_queue, wpc, doh, hist>>

\* Time passes while the producer waits for Kafka.
Tick ==
  /\ mpc = "produce"
  /\ elapsed <= PRODUCE_INTERVAL
  /\ elapsed' = elapsed + 1
  /\ UNCHANGED <<given, comp, pl_workers, workers, produced, scale_modifier, need, mpc,
                 nextName, work_queue, idle_queue, wpc, doh, hist>>

\* check_worker_health (line 102-134) called where the coordinator is at
\* `at`: the drain empties idle_queue; a RuntimeError leaves produce_work
\* (the coordinator is "aborted"), otherwise it goes on at `to`.
health_pass(at, to) ==
  /\ mpc = at
  /\ idle_queue' = <<>>
  /\ IF all_dead(workers, idle_queue)
       THEN /\ mpc' = "aborted"
            /\ UNCHANGED <<workers, scale_modifier>>
       ELSE /\ mpc' = to
            /\ workers' = new_workers(workers, idle_queue)
            /\ scale_modifier' = scalier(workers, idle_queue)
  /\ UNCHANGED <<given, comp, pl_workers, produced, elapsed, need, nextName, work_queue,
                 wpc, doh, hist>>

\* check_workload line 66: the reconciliation pass of a scaling pass.
CheckWorkerHealth == health_pass("health", "depth")

\* A check_workload that returns the baseline need alone.
depth_step_baseline_only(hi, lo) ==
  /\ mpc = "depth"
  /\ need' = needed_workers(Len(work_queue), hi, lo)
  /\ scale_modifier' = 0
  /\ mpc' = "adjust"
  /\ UNCHANGED <<given, comp, pl_workers, workers, produced, elapsed, nextName, work_queue,
                 idle_queue, wpc, doh, hist>>

\* check_workload line 68-81: work_queue.qsize() and the combined need,
\* with the thresholds hi and lo.
depth_step(hi, lo) ==
  /\ mpc = "depth"
  /\ need' = needed_workers(Len(work_queue), hi, lo) + scale_modifier
  /\ scale_modifier' = 0
  /\ mpc' = "adjust"
  /\ UNCHANGED <<given, comp, pl_workers, workers, produced, elapsed, nextName, work_queue,
                 idle_queue, wpc, doh, hist>>

\* The depth step of the whole program, on the scaled thresholds.
CheckWorkload == depth_step(DepthHigh, DepthLow)

\* produce_work line 213-214: adjust_worker_count, then produce_start = now.
AdjustWorkerCount ==
  /\ mpc = "adjust"
  /\ IF sends_sentinel(workers, need)
       THEN /\ work_queue' = Append(work_queue, SENTINEL)
            /\ UNCHANGED <<workers, wpc, nextName>>
       ELSE LET n == to_make(workers, need)
            IN /\ nextName + n - 1 <= MaxSpawn
               /\ workers' = workers \o Interval(nextName, nextName + n - 1)
               /\ wpc' = [w \in Names |->
                            IF nextName <= w /\ w < nextName + n
                              THEN "get" ELSE wpc[w]]
               /\ nextName' = nextName + n
               /\ UNCHANGED work_queue
  /\ need' = 0
  /\ elapsed' = 0
  /\ mpc' = "produce"
  /\ UNCHANGED <<given, comp, pl_workers, produced, scale_modifier, idle_queue, doh, hist>>

\* A process_logs that leaves its loop when produce_work returns.
after_return_exits == "exited"

\* process_logs line 252-254: produce_work returned without an error; the
\* `while True` calls it again at once (no sleep, no break on this path).
after_return == "produce"

\* The Kafka iterator times out (consumer_timeout_ms): produce_work returns
\* and process_logs line 252-254 calls it again with its own `workers`.
KafkaTimeout ==
  /\ mpc = "produce"
  /\ mpc' = after_return
  /\ workers' = pl_workers
  /\ produced' = 0
  /\ elapsed' = 0
  /\ UNCHANGED <<given, comp, pl_workers, scale_modifier, need, nextName, work_queue,
                 idle_queue, wpc, doh, hist>>

(* --------------------------- specification ---------------------------- *)

\* process_logs line 249-251: workers = [], the queues, and the first
\* worker started by adjust_worker_count(need=1); produce_work is entered.
Init ==
  /\ pl_workers = <<1>>
  /\ workers = <<1>>
  /\ produced = 0
  /\ elapsed = 0
  /\ scale_modifier = 0
  /\ need = 0
  /\ mpc = "produce"
  /\ work_queue = <<>>
  /\ idle_queue = <<>>
  /\ wpc = [w \in Names |-> IF w = 1 THEN "get" ELSE "unborn"]
  /\ doh = [w \in Names |-> NoExc]
  /\ nextName = 2
  /\ hist = [w \in Names |-> <<>>]
  /\ comp = NoComp
  /\ given = NoCall

WorkerStep(w) ==
  \/ WGet(w)
  \/ WTermPut(w)
  \/ WTermFlushOk(w)
  \/ WTermFlushRaise(w)
  \/ WProcessOk(w)
  \/ WProcessRaise(w)
  \/ WExcFlushOk(w)
  \/ WExcFlushRaise(w)
  \/ WExcPut(w)

Next ==
  \/ Produce
  \/ Tick
  \/ CheckWorkerHealth
  \/ CheckWorkload
  \/ AdjustWorkerCount
  \/ KafkaTimeout
  \/ \E w \in Names : WorkerStep(w)

Spec == Init /\ [][Next]_vars

(* ------------------- the retirement scenario (C5) --------------------- *)

\* n records.
Records(n) == [i \in 1..n |-> REC]

\* The state right after a scaling pass that found the pool at the ceiling
\* and fewer than DepthLow items pending, and so enqueued one SENTINEL:
\* MAX_WORKERS tracked workers, each waiting for an item or busy with one.
InitRetire ==
  /\ pl_workers = <<1>>
  /\ workers = Interval(1, MAX_WORKERS)
  /\ produced = 0
  /\ elapsed = 0
  /\ scale_modifier = 0
  /\ need = 0
  /\ mpc = "produce"
  /\ \E k \in 0..(DepthLow - 1) : work_queue = Append(Records(k), SENTINEL)
  /\ idle_queue = <<>>
  /\ \E busy \in SUBSET (1..MAX_WORKERS) :
       wpc = [w \in Names |-> IF w > MAX_WORKERS THEN "unborn"
                               ELSE IF w \in busy THEN "process" ELSE "get"]
  /\ doh = [w \in Names |-> NoExc]
  /\ nextName = MAX_WORKERS + 1
  /\ hist = [w \in Names |-> <<>>]
  /\ comp = NoComp
  /\ given = NoCall

\* A reconciliation pass on its own: check_worker_health, with no
\* adjustment after it.
Reconcile == health_pass("produce", "produce")

\* The scenario: no process_data error, no further scale decision; the
\* workers run, the reconciler runs, the Kafka iterator may time out.
NextRetire ==
  \/ Reconcile
  \/ KafkaTimeout
  \/ \E w \in Names :
       \/ WGet(w)
       \/ WTermPut(w)
       \/ WTermFlushOk(w)
       \/ WTermFlushRaise(w)
       \/ WProcessOk(w)
       \/ WExcFlushOk(w)
       \/ WExcFlushRaise(w)
       \/ WExcPut(w)

SpecRetire == InitRetire /\ [][NextRetire]_vars

(* ------------- check_worker_health on its own (C11, C12) -------------- *)

\* The lists of workers the coordinator can hold: names in the order the
\* processes were started (adjust_worker_count appends, line 166).
TrackedLists ==
  {ws \in UNION {[1..n -> Names] : n \in 0..MaxSpawn} :
     \A i \in 1..(Len(ws) - 1) : ws[i] < ws[i + 1]}

\* worker.py line 45, 59: the (name, error) tuples.
ControlMessages == [worker : Names, error : ExcTexts]

\* What idle_queue can hold: a worker puts at most two messages, and a
\* second one only after the clean one of line 45.
IdleQueues ==
  {q \in UNION {[1..n -> ControlMessages] : n \in 0..MaxMsgs} :
     /\ \A i, j \in 1..Len(q) :
          (i < j /\ q[i].worker = q[j].worker) => q[i].error = ""
     /\ \A w \in Names : Cardinality({i \in 1..Len(q) : q[i].worker = w}) <= 2}

\* check_worker_health(workers, idle_queue, log) is about to be called.
InitHealth ==
  /\ pl_workers = <<1>>
  /\ \E ws \in TrackedLists, q \in IdleQueues :
       /\ workers = ws
       /\ idle_queue = q
       /\ given = [fn |-> "check_worker_health", workers |-> ws, idle_queue |-> q]
       /\ wpc = [w \in Names |-> IF w \in terminated(q) THEN "exited"
                                ELSE IF w \in Range(ws) THEN "get"
                                ELSE "unborn"]
  /\ produced = 0
  /\ elapsed = 0
  /\ scale_modifier = 0
  /\ need = 0
  /\ mpc = "health"
  /\ work_queue = <<>>
  /\ doh = [w \in Names |-> NoExc]
  /\ nextName = MaxSpawn + 1
  /\ hist = [w \in Names |-> <<>>]
  /\ comp = NoComp

NextHealth == CheckWorkerHealth

SpecHealth == InitHealth /\ [][NextHealth]_vars

(* ---------------- check_workload on its own (C14, C15) ---------------- *)

\* check_workload(workers, work_queue, idle_queue, log) is about to be
\* called: any pool up to the ceiling, any waiting messages, any depth.
InitWorkload ==
  /\ pl_workers = <<1>>
  /\ \E s \in 0..MAX_WORKERS, q \in IdleQueues, d \in 0..MaxDepth :
       /\ workers = Interval(1, s)
       /\ idle_queue = q
       /\ work_queue = Records(d)
       /\ given = [fn |-> "check_workload", workers |-> Interval(1, s),
                   idle_queue |-> q, depth |-> d]
       /\ wpc = [w \in Names |-> IF w \in terminated(q) THEN "exited"
                                ELSE IF w <= s THEN "get"
                                ELSE "unborn"]
  /\ produced = 0
  /\ elapsed = 0
  /\ scale_modifier = 0
  /\ need = 0
  /\ mpc = "health"
  /\ doh = [w \in Names |-> NoExc]
  /\ nextName = MaxSpawn + 1
  /\ hist = [w \in Names |-> <<>>]
  /\ comp = NoComp

\* The depth step with the thresholds of the source.
CheckWorkloadFull == depth_step(SCALE_UP_DEPTH, SCALE_DOWN_DEPTH)

NextWorkload == CheckWorkerHealth \/ CheckWorkloadFull

SpecWorkload == InitWorkload /\ [][NextWorkload]_vars

(* ------------- adjust_worker_count on its own (C16..C19) -------------- *)

\* The largest need check_workload returns (line 79): SCALE_UP_BY and a
\* scalier of 1.
MaxNeed == SCALE_UP_BY + 1

\* What work_queue can hold when the adjustment runs: records, with or
\* without a SENTINEL of an earlier pass behind them.
WorkQueues ==
  {Records(k) : k \in 0..DepthHigh} \cup {Append(Records(k), SENTINEL) : k \in 0..DepthHigh}

\* adjust_worker_count(workers, Worker, group_id, work_queue, idle_queue,
\* need) is about to be called: any pool up to the ceiling, any need from
\* -MaxNeed to MaxNeed, any content of the two queues.
InitAdjust ==
  /\ pl_workers = <<1>>
  /\ \E s \in 0..MAX_WORKERS, n \in (-MaxNeed)..MaxNeed,
        wq \in WorkQueues, q \in IdleQueues :
       /\ workers = Interval(1, s)
       /\ need = n
       /\ work_queue = wq
       /\ idle_queue = q
       /\ given = [fn |-> "adjust_worker_count", workers |-> Interval(1, s),
                   need |-> n, work_queue |-> wq, idle_queue |-> q]
       /\ wpc = [w \in Names |-> IF w <= s THEN "get" ELSE "unborn"]
       /\ nextName = s + 1
  /\ produced = 0
  /\ elapsed = 0
  /\ scale_modifier = 0
  /\ mpc = "adjust"
  /\ doh = [w \in Names |-> NoExc]
  /\ hist = [w \in Names |-> <<>>]
  /\ comp = NoComp

NextAdjust == AdjustWorkerCount

SpecAdjust == InitAdjust /\ [][NextAdjust]_vars

(* -------------------- Worker.run on its own (C20) --------------------- *)

\* MAX_WORKERS worker processes have been started and the coordinator is
\* idle: whatever is on work_queue is all the workers will get.
InitWorker ==
  /\ pl_workers = <<1>>
  /\ workers = Interval(1, MAX_WORKERS)
  /\ \E wq \in WorkQueues : work_queue = wq
  /\ idle_queue = <<>>
  /\ given = [fn |-> "Worker.run"]
  /\ wpc = [w \in Names |-> IF w <= MAX_WORKERS THEN "get" ELSE "unborn"]
  /\ nextName = MAX_WORKERS + 1
  /\ produced = 0
  /\ elapsed = 0
  /\ scale_modifier = 0
  /\ need = 0
  /\ mpc = "produce"
  /\ doh = [w \in Names |-> NoExc]
  /\ hist = [w \in Names |-> <<>>]
  /\ comp = NoComp

NextWorker == \E w \in Names : WorkerStep(w)

SpecWorker == InitWorker /\ [][NextWorker]_vars

(* -------------- LogWorker.process_data in Worker.run (C21) ------------ *)

\* What extract() (worker.py:111-113, firewall.py:54-56) can raise:
\* ujson.loads a ValueError, Fernet.decrypt an InvalidToken, or a TypeError
\* for a payload that is not bytes.
ExtractErrors == {"ValueError", "InvalidToken", "TypeError"}

\* An except clause that names ValueError alone.
handled_value_error_only(exc) == exc = "ValueError"

\* worker.py:91, firewall.py:69: except (ValueError, InvalidToken).
handled(exc) == exc \in {"ValueError", "InvalidToken"}

\* MAX_WORKERS LogWorkers have been started; the document store has
\* received nothing and the coordinator is waiting for Kafka.
InitLogWorker ==
  /\ pl_workers = <<1>>
  /\ workers = Interval(1, MAX_WORKERS)
  /\ \E k \in 0..MaxQueue : work_queue \in {Records(k), Append(Records(k), SENTINEL)}
  /\ idle_queue = <<>>
  /\ given = [fn |-> "LogWorker.process_data"]
  /\ comp = [kind |-> "LogWorker",
             written |-> 0,
             logged |-> 0,
             extract |-> [w \in Names |-> "none"]]
  /\ wpc = [w \in Names |-> IF w <= MAX_WORKERS THEN "get" ELSE "unborn"]
  /\ nextName = MAX_WORKERS + 1
  /\ produced = 0
  /\ elapsed = 0
  /\ scale_modifier = 0
  /\ need = 0
  /\ mpc = "produce"
  /\ doh = [w \in Names |-> NoExc]
  /\ hist = [w \in Names |-> <<>>]

\* worker.py:48, 89-92: extract raises an error the except clause names;
\* it is logged, process_data returns and Worker.run goes round its loop.
LogExtractHandled(w) ==
  /\ wpc[w] = "process"
  /\ \E exc \in ExtractErrors :
       /\ handled(exc)
       /\ comp' = [comp EXCEPT !.extract[w] = exc, !.logged = @ + 1]
  /\ wpc' = [wpc EXCEPT ![w] = "get"]
  /\ UNCHANGED <<pl_workers, workers, produced, elapsed, scale_modifier, need,
                 mpc, nextName, given, work_queue, idle_queue, doh, hist>>

\* worker.py:48-49, 89-91: extract raises an error the except clause does
\* not name; it leaves process_data and Worker.run catches it as doh.
LogExtractUnhandled(w) ==
  /\ wpc[w] = "process"
  /\ \E exc \in ExtractErrors :
       /\ ~handled(exc)
       /\ comp' = [comp EXCEPT !.extract[w] = exc]
  /\ \E e \in ExcTexts :
       /\ doh' = [doh EXCEPT ![w] = e]
       /\ hist' = [hist EXCEPT ![w] =
                     Append(@, IF e = "" THEN "raise_empty" ELSE "raise_text")]
  /\ wpc' = [wpc EXCEPT ![w] = "exc_flush"]
  /\ UNCHANGED <<pl_workers, workers, produced, elapsed, scale_modifier, need,
                 mpc, nextName, given, work_queue, idle_queue>>

\* worker.py:90, 93-95: extract returns, the document is formatted and
\* es.write posts it.
LogWriteOk(w) ==
  /\ wpc[w] = "process"
  /\ comp' = [comp EXCEPT !.extract[w] = "ok", !.written = @ + 1]
  /\ wpc' = [wpc EXCEPT ![w] = "get"]
  /\ UNCHANGED <<pl_workers, workers, produced, elapsed, scale_modifier, need,
                 mpc, nextName, given, work_queue, idle_queue, doh, hist>>

\* worker.py:95, elasticsearch.py:59: resp.raise_for_status() raises; the
\* error leaves process_data and Worker.run catches it as doh.
LogWriteRaise(w) ==
  /\ wpc[w] = "process"
  /\ comp' = [comp EXCEPT !.extract[w] = "ok"]
  /\ \E e \in ExcTexts :
       /\ doh' = [doh EXCEPT ![w] = e]
       /\ hist' = [hist EXCEPT ![w] =
                     Append(@, IF e = "" THEN "raise_empty" ELSE "raise_text")]
  /\ wpc' = [wpc EXCEPT ![w] = "exc_flush"]
  /\ UNCHANGED <<pl_workers, workers, produced, elapsed, scale_modifier, need,
                 mpc, nextName, given, work_queue, idle_queue>>

\* Worker.run of a LogWorker: line 48 calls LogWorker.process_data.
LogWorkerStep(w) ==
  \/ WGet(w)
  \/ WTermPut(w)
  \/ WTermFlushOk(w)
  \/ WTermFlushRaise(w)
  \/ LogExtractHandled(w)
  \/ LogExtractUnhandled(w)
  \/ LogWriteOk(w)
  \/ LogWriteRaise(w)
  \/ WExcFlushOk(w)
  \/ WExcFlushRaise(w)
  \/ WExcPut(w)

NextLogWorker == \E w \in Names : LogWorkerStep(w)

SpecLogWorker == InitLogWorker /\ [][NextLogWorker]_vars

(* ----------- the drain loop of check_worker_health (C22) -------------- *)

\* A receive that waits for a message.
get_block_waits == TRUE

\* manager.py:108: idle_queue.get(block=False).
get_block == FALSE

\* check_worker_health is called while MAX_WORKERS workers run on whatever
\* work_queue holds; workers that left earlier may have reported already.
InitDrain ==
  /\ pl_workers = <<1>>
  /\ workers = Interval(1, MAX_WORKERS)
  /\ work_queue \in WorkQueues
  /\ \E q \in IdleQueues :
       /\ \A i \in 1..Len(q) : q[i].worker > MAX_WORKERS
       /\ idle_queue = q
       /\ wpc = [w \in Names |-> IF w <= MAX_WORKERS THEN "get"
                                ELSE IF w \in terminated(q) THEN "exited"
                                ELSE "unborn"]
  /\ given = [fn |-> "check_worker_health drain"]
  /\ comp = [kind |-> "drain", at |-> "test", there |-> TRUE, drained |-> <<>>]
  /\ nextName = MaxSpawn + 1
  /\ produced = 0
  /\ elapsed = 0
  /\ scale_modifier = 0
  /\ need = 0
  /\ mpc = "health"
  /\ doh = [w \in Names |-> NoExc]
  /\ hist = [w \in Names |-> <<>>]

\* line 106: while not idle_queue.empty().  When the queue announces a
\* message, the message may or may not be there for the receive that
\* follows (`there`).
DrainTest ==
  /\ comp.kind = "drain"
  /\ comp.at = "test"
  /\ IF idle_queue = <<>>
       THEN comp' = [comp EXCEPT !.at = "decide"]
       ELSE \E b \in BOOLEAN : comp' = [comp EXCEPT !.at = "get", !.there = b]
  /\ UNCHANGED <<pl_workers, workers, produced, elapsed, scale_modifier, need,
                 mpc, nextName, given, work_queue, idle_queue, wpc, doh, hist>>

\* line 108-111: the receive returns a message; it is counted.
DrainGet ==
  /\ comp.kind = "drain"
  /\ comp.at = "get"
  /\ comp.there
  /\ idle_queue # <<>>
  /\ idle_queue' = Tail(idle_queue)
  /\ comp' = [comp EXCEPT !.at = "test", !.drained = Append(@, Head(idle_queue))]
  /\ UNCHANGED <<pl_workers, workers, produced, elapsed, scale_modifier, need,
                 mpc, nextName, given, work_queue, wpc, doh, hist>>

\* line 108, 112-113: the message is not there; a receive that does not
\* block raises queue.Empty and the loop is left (a receive that blocks
\* would wait here).
DrainGetEmpty ==
  /\ comp.kind = "drain"
  /\ comp.at = "get"
  /\ ~comp.there
  /\ ~get_block
  /\ comp' = [comp EXCEPT !.at = "decide"]
  /\ UNCHANGED <<pl_workers, workers, produced, elapsed, scale_modifier, need,
                 mpc, nextName, given, work_queue, idle_queue, wpc, doh, hist>>

\* line 116-134: the RuntimeError, or the list and the scalier returned.
DrainDecide ==
  /\ comp.kind = "drain"
  /\ comp.at = "decide"
  /\ IF all_dead(workers, comp.drained)
       THEN /\ mpc' = "aborted"
            /\ comp' = [comp EXCEPT !.at = "raised"]
            /\ UNCHANGED <<workers, scale_modifier>>
       ELSE /\ mpc' = "depth"
            /\ comp' = [comp EXCEPT !.at = "returned"]
            /\ workers' = new_workers(workers, comp.drained)
            /\ scale_modifier' = scalier(workers, comp.drained)
  /\ UNCHANGED <<pl_workers, produced, elapsed, need, nextName, given,
                 work_queue, idle_queue, wpc, doh, hist>>

\* The steps of the call.
DrainStep == DrainTest \/ DrainGet \/ DrainGetEmpty \/ DrainDecide

NextDrain == DrainStep \/ \E w \in Names : WorkerStep(w)

\* The coordinator is a running process: a step of the call that can be
\* taken is taken; nothing is assumed about the workers.
SpecDrain == InitDrain /\ [][NextDrain]_vars /\ WF_vars(DrainStep)

(* --------------- process_logs' error handler (C25) -------------------- *)

\* process_logs line 258: the cooldown, in seconds.
COOLDOWN == 300

\* The methods of the object get_logger returns (a logging.Logger or
\* logging.LoggerAdapter) that the handler could call.
LoggerMethods == {"debug", "info", "warning", "error", "exception", "critical"}

\* The state inside a reconciliation pass of produce_work, as InitHealth,
\* with process_logs' own account in comp: the messages it logged and the
\* seconds it slept.
InitProcessLogs ==
  /\ pl_workers = <<1>>
  /\ \E ws \in TrackedLists, q \in IdleQueues :
       /\ workers = ws
       /\ idle_queue = q
       /\ wpc = [w \in Names |-> IF w \in terminated(q) THEN "exited"
                                ELSE IF w \in Range(ws) THEN "get"
                                ELSE "unborn"]
  /\ given = [fn |-> "process_logs"]
  /\ comp = [kind |-> "process_logs", logged |-> 0, slept |-> 0]
  /\ produced = 0
  /\ elapsed = 0
  /\ scale_modifier = 0
  /\ need = 0
  /\ mpc = "health"
  /\ work_queue = <<>>
  /\ doh = [w \in Names |-> NoExc]
  /\ nextName = MaxSpawn + 1
  /\ hist = [w \in Names |-> <<>>]

\* process_logs line 255-259, the whole handler: its first statement calls
\* log.execption; the attribute lookup raises AttributeError when the
\* logger has no such method, and the error leaves process_logs before
\* log.error, time.sleep and break.
ExceptHandler ==
  /\ mpc = "aborted"
  /\ IF "execption" \in LoggerMethods
       THEN /\ comp' = [comp EXCEPT !.logged = @ + 2, !.slept = @ + COOLDOWN]
            /\ mpc' = "exited"
       ELSE /\ mpc' = "crashed"
            /\ UNCHANGED comp
  /\ UNCHANGED <<given, pl_workers, workers, produced, elapsed, scale_modifier, need,
                 nextName, work_queue, idle_queue, wpc, doh, hist>>

NextProcessLogs ==
  \/ CheckWorkerHealth
  \/ ExceptHandler

SpecProcessLogs == InitProcessLogs /\ [][NextProcessLogs]_vars

(* ------------------ the InfluxDB client (C27, C28) -------------------- *)

\* InfluxDB.write line 52: the batch size above which write sends (5000 in
\* the source), scaled down.
StageLimit == 2

\* InfluxDB.write line 52: the seconds since the last write after which
\* write sends (10 in the source), scaled down.
FlushInterval == 2

\* The data points written and the clock readings of one behaviour.
MaxPoints == 5
MaxNow == 4

\* The posts of one behaviour after which flush is no more called on its own.
MaxPosts == 2

\* Python's None.
None == "None"

\* The variables of the log processor, which the client does not touch.
hostVars == <<pl_workers, workers, produced, elapsed, scale_modifier, need, mpc,
              work_queue, idle_queue, wpc, doh, nextName, hist, given>>

\* The measurement the client was constructed with.
Measurement == "system"

\* A write that sends as soon as the batch size is reached.
over_limit_inclusive(staged) == Len(staged) >= StageLimit

\* write line 52, first operand: len(self._staged) > 5000.
over_limit(staged) == Len(staged) > StageLimit

\* write line 52, second operand: last_write_delta >= 10.
interval_passed(write_time, last_write) == write_time - last_write >= FlushInterval

\* _format_data line 93-100: the line of one data point, as its parts:
\* the measurement with the tags when there are tags, the fields, the
\* timestamp.
format_point(data_point) ==
  << IF data_point.tags # None THEN <<Measurement, data_point.tags>> ELSE <<Measurement>>,
     data_point.fields,
     data_point.timestamp >>

\* _format_data line 92-101: one line per data point, in the order of the
\* list (the lines are joined by newlines).
format_data(influx_data) ==
  [i \in 1..Len(influx_data) |-> format_point(influx_data[i])]

\* A flush that drops the staged points although the response was not OK.
staged_after_error_dropped(staged) == <<>>

\* flush line 70-75: InfluxError is raised before line 76-77 run.
staged_after_error(staged) == staged

\* __init__ line 23-28; the clock reads `now` (a test clock may read less
\* than the interval; a real one is far beyond it).
InitInflux ==
  /\ \E t \in 0..FlushInterval :
       comp = [kind |-> "InfluxDB", staged |-> <<>>, last_write |-> 0,
               first_write |-> TRUE, now |-> t, written |-> 0, met |-> 0,
               posts |-> 0, payload |-> <<>>, resp_ok |-> TRUE, op |-> "init",
               result |-> "none"]
  /\ given = [fn |-> "InfluxDB"]
  /\ pl_workers = <<>>
  /\ workers = <<>>
  /\ produced = 0
  /\ elapsed = 0
  /\ scale_modifier = 0
  /\ need = 0
  /\ mpc = "none"
  /\ work_queue = <<>>
  /\ idle_queue = <<>>
  /\ wpc = [w \in Names |-> "unborn"]
  /\ doh = [w \in Names |-> NoExc]
  /\ nextName = 1
  /\ hist = [w \in Names |-> <<>>]

\* flush line 68-77 with the staged list `staged`: the payload is posted
\* and the response is OK or not (`ok`); a response that is not OK raises
\* InfluxError.
flush_from(c, staged, write_time, ok) ==
  IF ok
    THEN [c EXCEPT !.posts = @ + 1, !.payload = format_data(staged),
                   !.resp_ok = ok,
                   !.last_write = write_time, !.staged = <<>>,
                   !.result = "returned"]
    ELSE [c EXCEPT !.posts = @ + 1, !.payload = format_data(staged),
                   !.resp_ok = ok,
                   !.staged = staged_after_error(staged),
                   !.result = "InfluxError"]

\* InfluxDB.write line 45-58.  `met` counts the calls in which the
\* condition of line 52 held.
InfluxWrite ==
  /\ comp.kind = "InfluxDB"
  /\ comp.written < MaxPoints
  /\ \E tags \in {None, "host=a"}, ok \in BOOLEAN :
       LET write_time == comp.now
           point == [tags |-> tags, fields |-> comp.written + 1, timestamp |-> write_time]
           staged == Append(comp.staged, point)
           c == [comp EXCEPT !.staged = staged, !.written = @ + 1, !.op = "write",
                             !.result = "returned"]
       IN  IF over_limit(staged) \/ interval_passed(write_time, comp.last_write)
             THEN IF comp.first_write
                    THEN comp' = [c EXCEPT !.first_write = FALSE,
                                           !.last_write = write_time,
                                           !.met = @ + 1]
                    ELSE comp' = [flush_from(c, staged, write_time, ok)
                                    EXCEPT !.met = @ + 1]
             ELSE comp' = c
  /\ UNCHANGED hostVars

\* InfluxDB.flush line 60-77 called on its own (write_time defaults to 0).
InfluxFlush ==
  /\ comp.kind = "InfluxDB"
  /\ comp.posts < MaxPosts
  /\ \E ok \in BOOLEAN :
       comp' = flush_from([comp EXCEPT !.op = "flush"], comp.staged, 0, ok)
  /\ UNCHANGED hostVars

\* The clock advances by a second.
InfluxTick ==
  /\ comp.kind = "InfluxDB"
  /\ comp.now < MaxNow
  /\ comp' = [comp EXCEPT !.now = @ + 1, !.op = "tick"]
  /\ UNCHANGED hostVars

NextInflux ==
  \/ InfluxWrite
  \/ InfluxFlush
  \/ InfluxTick

SpecInflux == InitInflux /\ [][NextInflux]_vars

(* ---------------- the log exporter's supervision (C29) ---------------- *)

\* The exporter threads created in one behaviour.
MaxExporters == 4

\* Container names, as the parts between '_' (each part as its parts
\* between '-'): vlab_dns_1, vlab_onefs-api_1 and registry.
Containers ==
  { << <<"vlab">>, <<"dns">>, <<"1">> >>,
    << <<"vlab">>, <<"onefs", "api">>, <<"1">> >>,
    << <<"registry">> >> }

\* get_topic line 141: container_name.split('_')[-2] raises IndexError
\* when the name has fewer than two parts.
topic_raises(container_name) == Len(container_name) < 2

\* get_topic line 141-161.
get_topic(container_name) ==
  LET log_group == container_name[Len(container_name) - 1]
      log_style == IF Len(log_group) >= 2 THEN log_group[2] ELSE log_group[1]
  IN  IF log_style = "api" THEN "web"
      ELSE IF log_style \in {"worker", "dns", "ntp"} THEN log_style
      ELSE "other"

\* The orders client.containers.list() can list the containers `s` in.
Orders(s) ==
  {o \in [1..Cardinality(s) -> s] : \A i, j \in 1..Cardinality(s) : o[i] = o[j] => i = j}

\* main line 193: workers = {} (0: no entry; otherwise the thread's number),
\* no thread yet; the containers of `running` are up.
InitExporter ==
  /\ \E r \in SUBSET Containers :
       comp = [kind |-> "exporter", running |-> r,
               workers |-> [n \in Containers |-> 0],
               threads |-> <<>>, alive |-> {}, op |-> "init", at |-> "up"]
  /\ given = [fn |-> "log_exporter.main"]
  /\ pl_workers = <<>>
  /\ workers = <<>>
  /\ produced = 0
  /\ elapsed = 0
  /\ scale_modifier = 0
  /\ need = 0
  /\ mpc = "none"
  /\ work_queue = <<>>
  /\ idle_queue = <<>>
  /\ wpc = [w \in Names |-> "unborn"]
  /\ doh = [w \in Names |-> NoExc]
  /\ nextName = 1
  /\ hist = [w \in Names |-> <<>>]

\* Exporter(...) and start(), line 121-126 and 87-92: a new live thread
\* for the container, stored under its name.
with_exporter(c, container_name) ==
  [c EXCEPT !.threads = Append(@, [name |-> container_name,
                                   topic |-> get_topic(container_name)]),
            !.alive = @ \cup {Len(c.threads) + 1},
            !.workers[container_name] = Len(c.threads) + 1]

RECURSIVE spawn_loop(_, _)
\* spawn_workers line 116-126 over the listed containers; an IndexError of
\* get_topic leaves the function (and main, which does not catch it).
spawn_loop(c, containers) ==
  IF containers = <<>> THEN c
  ELSE LET container_name == Head(containers)
       IN  IF c.workers[container_name] # 0
             THEN spawn_loop(c, Tail(containers))
           ELSE IF topic_raises(container_name)
             THEN [c EXCEPT !.at = "IndexError"]
           ELSE spawn_loop(with_exporter(c, container_name), Tail(containers))

\* respawn_workers line 83-85: not worker.is_alive() and alive_container.
needs_respawn(is_alive, alive_container) == ~is_alive /\ alive_container

RECURSIVE respawn_loop(_, _, _)
\* respawn_workers line 82-95 over the entries of workers; `alive` is the
\* listing of line 81.
respawn_loop(c, alive, names) ==
  IF names = <<>> THEN c
  ELSE LET container_name == Head(names)
           worker == c.workers[container_name]
       IN  IF needs_respawn(worker \in c.alive, container_name \in alive)
             THEN respawn_loop(with_exporter(c, container_name), alive, Tail(names))
             ELSE respawn_loop(c, alive, Tail(names))

\* main line 196: spawn_workers.
SpawnWorkers ==
  /\ comp.kind = "exporter"
  /\ comp.at = "up"
  /\ Len(comp.threads) + Cardinality(comp.running) <= MaxExporters
  /\ \E containers \in Orders(comp.running) :
       comp' = spawn_loop([comp EXCEPT !.op = "spawn"], containers)
  /\ UNCHANGED hostVars

\* main line 197: respawn_workers.
RespawnWorkers ==
  /\ comp.kind = "exporter"
  /\ comp.at = "up"
  /\ Len(comp.threads) + Cardinality(comp.running) <= MaxExporters
  /\ \E names \in Orders({n \in Containers : comp.workers[n] # 0}) :
       comp' = respawn_loop([comp EXCEPT !.op = "respawn"], comp.running, names)
  /\ UNCHANGED hostVars

\* Docker starts a container.
ContainerStart ==
  /\ comp.kind = "exporter"
  /\ \E n \in Containers \ comp.running :
       comp' = [comp EXCEPT !.running = @ \cup {n}, !.op = "start"]
  /\ UNCHANGED hostVars

\* A container stops.
ContainerStop ==
  /\ comp.kind = "exporter"
  /\ \E n \in comp.running :
       comp' = [comp EXCEPT !.running = @ \ {n}, !.op = "stop"]
  /\ UNCHANGED hostVars

\* Exporter.run line 52-56: the thread of an exporter ends (the log stream
\* of its container ended, or an error).
ExporterExit ==
  /\ comp.kind = "exporter"
  /\ \E t \in comp.alive :
       comp' = [comp EXCEPT !.alive = @ \ {t}, !.op = "exit"]
  /\ UNCHANGED hostVars

NextExporter ==
  \/ SpawnWorkers
  \/ RespawnWorkers
  \/ ContainerStart
  \/ ContainerStop
  \/ ExporterExit

SpecExporter == InitExporter /\ [][NextExporter]_vars

(* ------------------- Exporter.run's grouping (C30) -------------------- *)

\* The lines read from the log stream in one behaviour.
MaxLines == 5

\* The second byte of the k-th line read (it tells the lines apart).
Digit == <<"1", "2", "3", "4", "5", "6", "7", "8", "9">>

\* bytes.join: the lines one after the other.
RECURSIVE join(_)
join(lines) == IF lines = <<>> THEN <<>> ELSE Head(lines) \o join(Tail(lines))

\* run line 48-49: the payload with the container's name, encrypted.
message_of(name, lines) == <<"fernet", [name |-> name, log |-> join(lines)]>>

\* A run that starts a message only at a line that begins with no space.
continues_on_space_only(line, lines) == line[1] = " "

\* run line 44: line.startswith(b' ') or len(lines) == 0.
continues(line, lines) == line[1] = " " \/ Len(lines) = 0

\* run line 42: lines = [], nothing sent, the stream open.
InitRun ==
  /\ comp = [kind |-> "run", name |-> "vlab_dns_1", lines |-> <<>>, sent |-> <<>>,
             read |-> 0, at |-> "running"]
  /\ given = [fn |-> "Exporter.run"]
  /\ pl_workers = <<>>
  /\ workers = <<>>
  /\ produced = 0
  /\ elapsed = 0
  /\ scale_modifier = 0
  /\ need = 0
  /\ mpc = "none"
  /\ work_queue = <<>>
  /\ idle_queue = <<>>
  /\ wpc = [w \in Names |-> "unborn"]
  /\ doh = [w \in Names |-> NoExc]
  /\ nextName = 1
  /\ hist = [w \in Names |-> <<>>]

\* run line 43-51: one line of the stream.  conn.send returns or raises;
\* an error ends the thread (line 52-56).
RunLine ==
  /\ comp.kind = "run"
  /\ comp.at = "running"
  /\ comp.read < MaxLines
  /\ \E first \in {" ", "E"}, ok \in BOOLEAN :
       LET line == <<first, Digit[comp.read + 1]>>
           c == [comp EXCEPT !.read = @ + 1]
       IN  IF continues(line, comp.lines)
             THEN comp' = [c EXCEPT !.lines = Append(@, line)]
             ELSE LET called == [c EXCEPT !.sent = Append(@, message_of(comp.name, comp.lines))]
                  IN  IF ok THEN comp' = [called EXCEPT !.lines = <<line>>]
                      ELSE comp' = [called EXCEPT !.at = "terminated"]
  /\ UNCHANGED hostVars

\* run line 43: the stream ends (the container stopped) or raises; line
\* 52-56 close the connection and the thread ends.
RunStreamEnd ==
  /\ comp.kind = "run"
  /\ comp.at = "running"
  /\ comp' = [comp EXCEPT !.at = "terminated"]
  /\ UNCHANGED hostVars

NextRun ==
  \/ RunLine
  \/ RunStreamEnd

SpecRun == InitRun /\ [][NextRun]_vars

(* ----------------- one scaling pass on its own (C36) ------------------ *)

\* produce_work line 212 is about to run: any pool up to the ceiling, any
\* messages of workers started so far (tracked or, after a new call of
\* produce_work, no longer tracked), any depth.
InitPass ==
  /\ pl_workers = <<1>>
  /\ \E s \in 0..MAX_WORKERS, q \in IdleQueues, d \in 0..MaxDepth :
       /\ workers = Interval(1, s)
       /\ idle_queue = q
       /\ work_queue = Records(d)
       /\ given = [fn |-> "scaling pass", workers |-> Interval(1, s),
                   idle_queue |-> q, depth |-> d]
       /\ wpc = [w \in Names |-> IF w \in terminated(q) THEN "exited"
                                ELSE IF w <= s THEN "get"
                                ELSE "unborn"]
       /\ \E last \in {s} \cup terminated(q) :
            /\ \A w \in {s} \cup terminated(q) : w <= last
            /\ nextName = last + 1
  /\ produced = 0
  /\ elapsed = PRODUCE_INTERVAL + 1
  /\ scale_modifier = 0
  /\ need = 0
  /\ mpc = "health"
  /\ doh = [w \in Names |-> NoExc]
  /\ hist = [w \in Names |-> <<>>]
  /\ comp = NoComp

\* produce_work line 212-214: check_workload (its two steps), then
\* adjust_worker_count.
NextPass ==
  \/ CheckWorkerHealth
  \/ CheckWorkloadFull
  \/ AdjustWorkerCount

SpecPass == InitPass /\ [][NextPass]_vars

(* -------- the program with handlers that never raise (C34) ------------ *)

\* Worker.run when process_data and flush_on_term return: line 42-47 and
\* the loop of line 40.
LiveWorkerStep(w) ==
  \/ WGet(w)
  \/ WTermPut(w)
  \/ WTermFlushOk(w)
  \/ WProcessOk(w)

\* The steps of a scaling pass (produce_work line 212-213).
PassStep ==
  \/ CheckWorkerHealth
  \/ CheckWorkload
  \/ AdjustWorkerCount

NextLive ==
  \/ Produce
  \/ Tick
  \/ KafkaTimeout
  \/ PassStep
  \/ \E w \in Names : LiveWorkerStep(w)

\* Fair scheduling: a process that can take a step takes it in the end,
\* each worker and the coordinator inside a scaling pass.  Kafka owes the
\* producer no further record.
SpecLive ==
  /\ Init
  /\ [][NextLive]_vars
  /\ \A w \in Names : WF_vars(LiveWorkerStep(w))
  /\ WF_vars(PassStep)

(* -------------- the usage collectors' supervision (C31, C32) ---------- *)

\* The collector threads created in one behaviour.
MaxCollectors == 4

\* The user folders vCenter can list.
Users == {"alice", "bob", "carol"}

\* A do_work that forgets no collector.
deleted_accounts_none(tracked, users) == {}

\* do_work line 67: set(user_collectors.keys()) - users.
deleted_accounts(tracked, users) == tracked \ users

\* do_work line 74: `collector.is_alive`, read without calling it, is the
\* bound method of threading.Thread, which is true as an object whether the
\* thread runs or not.
is_alive_attribute(thread_runs) == TRUE

\* The users that have an entry in the map m (0: no entry).
Tracked(m) == {u \in Users : m[u] # 0}

\* main line 89: user_collectors = {}; no thread yet; vCenter lists `us`.
InitCollectors ==
  /\ \E us \in SUBSET Users :
       comp = [kind |-> "collectors", users |-> us,
               user_collectors |-> [u \in Users |-> 0],
               threads |-> <<>>, alive |-> {}, op |-> "init"]
  /\ given = [fn |-> "collect_usage_stats.main"]
  /\ pl_workers = <<>>
  /\ workers = <<>>
  /\ produced = 0
  /\ elapsed = 0
  /\ scale_modifier = 0
  /\ need = 0
  /\ mpc = "none"
  /\ work_queue = <<>>
  /\ idle_queue = <<>>
  /\ wpc = [w \in Names |-> "unborn"]
  /\ doh = [w \in Names |-> NoExc]
  /\ nextName = 1
  /\ hist = [w \in Names |-> <<>>]

\* spawn_collector line 29-31 and the assignment to user_collectors[user]:
\* a new started thread for the user.
with_collector(c, user) ==
  [c EXCEPT !.threads = Append(@, [username |-> user, keep_running |-> TRUE]),
            !.alive = @ \cup {Len(c.threads) + 1},
            !.user_collectors[user] = Len(c.threads) + 1]

RECURSIVE spawn_missing(_, _)
\* do_work line 62-65 over the users still to visit.
spawn_missing(c, users) ==
  IF users = {} THEN c
  ELSE LET user == CHOOSE u \in users : TRUE
       IN  IF c.user_collectors[user] = 0
             THEN spawn_missing(with_collector(c, user), users \ {user})
             ELSE spawn_missing(c, users \ {user})

RECURSIVE drop_deleted(_, _)
\* do_work line 68-71 over the deleted accounts still to visit.
drop_deleted(c, deleted) ==
  IF deleted = {} THEN c
  ELSE LET deleted_account == CHOOSE u \in deleted : TRUE
       IN  drop_deleted(
             [c EXCEPT !.threads[c.user_collectors[deleted_account]].keep_running = FALSE,
                       !.user_collectors[deleted_account] = 0],
             deleted \ {deleted_account})

RECURSIVE respawn_dead(_, _)
\* do_work line 73-76 over the entries still to visit.
respawn_dead(c, users) ==
  IF users = {} THEN c
  ELSE LET user == CHOOSE u \in users : TRUE
       IN  IF ~is_alive_attribute(c.user_collectors[user] \in c.alive)
             THEN respawn_dead(with_collector(c, user), users \ {user})
             ELSE respawn_dead(c, users \ {user})

\* do_work line 61-77.
DoWork ==
  /\ comp.kind = "collectors"
  /\ Len(comp.threads) + Cardinality(Users) <= MaxCollectors + Cardinality(Tracked(comp.user_collectors))
  /\ LET spawned == spawn_missing([comp EXCEPT !.op = "do_work"], comp.users)
         kept == drop_deleted(spawned,
                   deleted_accounts(Tracked(spawned.user_collectors), comp.users))
     IN  comp' = respawn_dead(kept, Tracked(kept.user_collectors))
  /\ UNCHANGED hostVars

\* lookup_users line 43-46: a user folder appears in vCenter.
UserAdded ==
  /\ comp.kind = "collectors"
  /\ \E u \in Users \ comp.users :
       comp' = [comp EXCEPT !.users = @ \cup {u}, !.op = "added"]
  /\ UNCHANGED hostVars

\* A user folder is deleted.
UserDeleted ==
  /\ comp.kind = "collectors"
  /\ \E u \in comp.users :
       comp' = [comp EXCEPT !.users = @ \ {u}, !.op = "deleted"]
  /\ UNCHANGED hostVars

\* UserCollector.run line 26-41: the thread ends, because keep_running is
\* false (told to stop, or influx.write raised) or because get_usage raised.
CollectorExit ==
  /\ comp.kind = "collectors"
  /\ \E t \in comp.alive :
       comp' = [comp EXCEPT !.alive = @ \ {t}, !.op = "exit"]
  /\ UNCHANGED hostVars

NextCollectors ==
  \/ DoWork
  \/ UserAdded
  \/ UserDeleted
  \/ CollectorExit

SpecCollectors == InitCollectors /\ [][NextCollectors]_vars

(* ------- one InfluxDB client shared by collector threads (C37) -------- *)

\* The collector threads that hold the same InfluxDB object
\* (collect_usage_stats.main line 88, UserCollector.run line 33).
Collectors == {"c1", "c2"}

\* __init__ line 23-28, and every collector thread outside write.  For
\* each thread: where it is in write/flush (tpc), its write_time (wt) and
\* the payload it has formatted; posted[p] counts the payloads with point
\* p that InfluxDB accepted.
InitShared ==
  /\ \E t \in 0..FlushInterval :
       comp = [kind |-> "InfluxDB shared", staged |-> <<>>, last_write |-> 0,
               first_write |-> TRUE, now |-> t, written |-> 0,
               tpc |-> [c \in Collectors |-> "idle"],
               wt |-> [c \in Collectors |-> 0],
               payload |-> [c \in Collectors |-> <<>>],
               posted |-> [p \in 1..MaxPoints |-> 0]]
  /\ given = [fn |-> "InfluxDB shared"]
  /\ pl_workers = <<>>
  /\ workers = <<>>
  /\ produced = 0
  /\ elapsed = 0
  /\ scale_modifier = 0
  /\ need = 0
  /\ mpc = "none"
  /\ work_queue = <<>>
  /\ idle_queue = <<>>
  /\ wpc = [w \in Names |-> "unborn"]
  /\ doh = [w \in Names |-> NoExc]
  /\ nextName = 1
  /\ hist = [w \in Names |-> <<>>]

\* write line 45-48 in the thread c: the clock is read and the point is
\* appended to the shared list.
SharedAppend(c) ==
  /\ comp.kind = "InfluxDB shared"
  /\ comp.tpc[c] = "idle"
  /\ comp.written < MaxPoints
  /\ comp' = [comp EXCEPT
       !.staged = Append(@, [tags |-> None, fields |-> comp.written + 1,
                             timestamp |-> comp.now]),
       !.written = @ + 1,
       !.wt[c] = comp.now,
       !.tpc[c] = "test"]
  /\ UNCHANGED hostVars

\* write line 49-58 in the thread c: the condition, the first-write
\* branch, or the call of flush.
SharedTest(c) ==
  /\ comp.kind = "InfluxDB shared"
  /\ comp.tpc[c] = "test"
  /\ IF over_limit(comp.staged) \/ interval_passed(comp.wt[c], comp.last_write)
       THEN IF comp.first_write
              THEN comp' = [comp EXCEPT !.first_write = FALSE,
                                        !.last_write = comp.wt[c],
                                        !.tpc[c] = "idle"]
              ELSE comp' = [comp EXCEPT !.tpc[c] = "format"]
       ELSE comp' = [comp EXCEPT !.tpc[c] = "idle"]
  /\ UNCHANGED hostVars

\* flush line 68 in the thread c: the payload is built from the list as
\* it is now.
SharedFormat(c) ==
  /\ comp.kind = "InfluxDB shared"
  /\ comp.tpc[c] = "format"
  /\ comp' = [comp EXCEPT !.payload[c] = format_data(comp.staged), !.tpc[c] = "post"]
  /\ UNCHANGED hostVars

\* flush line 69-77 in the thread c: the request returns; when the
\* response is OK the points of the payload are in InfluxDB and the shared
\* list is replaced by an empty one, otherwise InfluxError is raised.
SharedPost(c) ==
  /\ comp.kind = "InfluxDB shared"
  /\ comp.tpc[c] = "post"
  /\ \E ok \in BOOLEAN :
       IF ok
         THEN comp' = [comp EXCEPT
                !.posted = [p \in 1..MaxPoints |->
                              IF \E i \in 1..Len(comp.payload[c]) : comp.payload[c][i][2] = p
                                THEN @[p] + 1 ELSE @[p]],
                !.last_write = comp.wt[c],
                !.staged = <<>>,
                !.payload[c] = <<>>,
                !.tpc[c] = "idle"]
         ELSE comp' = [comp EXCEPT !.staged = staged_after_error(@),
                                   !.payload[c] = <<>>,
                                   !.tpc[c] = "idle"]
  /\ UNCHANGED hostVars

\* The clock advances by a second.
SharedTick ==
  /\ comp.kind = "InfluxDB shared"
  /\ comp.now < MaxNow
  /\ comp' = [comp EXCEPT !.now = @ + 1]
  /\ UNCHANGED hostVars

NextShared ==
  \/ SharedTick
  \/ \E c \in Collectors :
       \/ SharedAppend(c)
       \/ SharedTest(c)
       \/ SharedFormat(c)
       \/ SharedPost(c)

SpecShared == InitShared /\ [][NextShared]_vars

(* =============================== claims =============================== *)

\* What a worker's history says.
TookSentinel(w) == "sentinel" \in Range(hist[w])

PutIndexes(w) == {i \in 1..Len(hist[w]) : hist[w][i] \in {"put_clean", "put_error"}}

FlushIndexes(w) == {i \in 1..Len(hist[w]) : hist[w][i] = "flush"}

\* C1: in every reachable state the coordinator's WorkerSet holds at least
\* one worker (the pool is never scaled to zero).
C1_WorkerSetNeverEmpty == Len(workers) >= 1

\* C2: every worker puts exactly one ControlMessage on idle_queue over its
\* lifetime: never a second one, and one by the time its loop has exited,
\* whichever way it exits and also when flush_on_term raises.
C2_ExactlyOneControlMessage ==
  \A w \in Names :
    /\ Cardinality(PutIndexes(w)) <= 1
    /\ wpc[w] = "exited" => Cardinality(PutIndexes(w)) = 1

\* C3: a worker that dequeued the termination marker has invoked
\* flush_on_term before it puts its ControlMessage: every put in its
\* history comes after a flush.
C3_FlushBeforeControlMessage ==
  \A w \in Names :
    TookSentinel(w) =>
      \A i \in PutIndexes(w) : \E j \in FlushIndexes(w) : j < i

\* C4: a worker that dequeued the termination marker reports (name, '')
\* and nothing else: no message with a non-empty error text is ever
\* enqueued for it, whether or not flush_on_term succeeded.
C4_RetirementReportsClean ==
  \A w \in Names :
    TookSentinel(w) =>
      /\ "put_error" \notin Range(hist[w])
      /\ \A i \in 1..Len(idle_queue) :
           idle_queue[i].worker = w => idle_queue[i].error = ""
      /\ wpc[w] = "exited" => "put_clean" \in Range(hist[w])

\* C5 (retirement scenario): with one termination marker enqueued for a
\* pool of w = MAX_WORKERS workers, the WorkerSet never has fewer than
\* w - 1 workers, and it has exactly w - 1 once the reconciler has drained
\* the retired worker's message.
C5_RetirementConverges ==
  /\ Len(workers) \in {MAX_WORKERS - 1, MAX_WORKERS}
  /\ \A w \in Names :
       ( /\ TookSentinel(w)
         /\ "put_clean" \in Range(hist[w])
         /\ \A i \in 1..Len(idle_queue) : idle_queue[i].worker # w )
       => Len(workers) = MAX_WORKERS - 1

\* C6: whenever adjust_worker_count enqueues a termination marker, the
\* markers waiting in work_queue are fewer than the workers still running,
\* so that acting on them cannot leave zero workers.
C6_MarkerLeavesAWorker ==
  [][Markers(work_queue') > Markers(work_queue)
       => Markers(work_queue') < Cardinality(Running')]_vars

\* C7: the number of concurrently running workers never exceeds
\* MAX_WORKERS.
C7_RunningWithinCeiling == Cardinality(Running) <= MAX_WORKERS

\* C8: a worker leaves the WorkerSet only in the reconciliation pass that
\* drains a ControlMessage bearing its name, and a worker enters it only
\* when adjust_worker_count has just created it: nothing else forgets a
\* tracked worker or brings a removed one back.
C8_MembershipOnlyByControlMessage ==
  [][ /\ \A w \in Range(workers) \ Range(workers') :
           /\ mpc = "health"
           /\ w \in terminated(idle_queue)
      /\ \A w \in Range(workers') \ Range(workers) :
           /\ mpc = "adjust"
           /\ wpc[w] = "unborn" ]_vars

\* C9: a ControlMessage has an empty error text only if its worker
\* dequeued the termination marker: a worker that exits on an error of
\* process_data always reports a non-empty text.
C9_EmptyTextMeansRetired ==
  /\ \A i \in 1..Len(idle_queue) :
       idle_queue[i].error = "" => TookSentinel(idle_queue[i].worker)
  /\ \A w \in Names :
       "put_clean" \in Range(hist[w]) => TookSentinel(w)

\* C10: a reconciliation pass that drains k crash messages with n tracked
\* workers returns scalier 0 when k = 0 and scalier 1 when 0 < k < n.
C10_ScalierOfCrashCount ==
  [][ (mpc = "health" /\ mpc' # "health") =>
        LET k == error_workers(idle_queue)
            n == Len(workers)
        IN /\ k = 0 => (mpc' = "depth" /\ scale_modifier' = 0)
           /\ (0 < k /\ k < n) => (mpc' = "depth" /\ scale_modifier' = 1) ]_vars

\* The worker w has a message in q that reports an error.
ReportedCrash(w, q) == \E i \in 1..Len(q) : q[i].worker = w /\ q[i].error # ""

\* The call of check_worker_health studied on its own has ended.
HealthCallEnded == given.fn = "check_worker_health" /\ mpc # "health"

\* C11 (check_worker_health on its own): when every worker of the list
\* passed in reported a crash in the drained messages, the call raises
\* RuntimeError and returns no list and no scalier.
C11_AllCrashedAborts ==
  (/\ HealthCallEnded
   /\ given.workers # <<>>
   /\ \A w \in Range(given.workers) : ReportedCrash(w, given.idle_queue))
  => mpc = "aborted"

\* Where x stands in the sequence s of distinct elements.
Position(s, x) == CHOOSE k \in 1..Len(s) : s[k] = x

\* C12 (check_worker_health on its own): the list returned holds exactly
\* the workers passed in whose name no drained message bears, clean or
\* not, once each and in the order they were passed in.
C12_ReturnsTheUnreported ==
  (HealthCallEnded /\ mpc = "depth") =>
    /\ Range(workers) =
         {w \in Range(given.workers) :
            \A i \in 1..Len(given.idle_queue) : given.idle_queue[i].worker # w}
    /\ \A i, j \in 1..Len(workers) :
         i < j => Position(given.workers, workers[i]) < Position(given.workers, workers[j])

\* C12 witness: a call returned after one worker reported a clean exit,
\* another a crash, and a third nothing; only the third is kept.
C12_Witness ==
  /\ HealthCallEnded
  /\ mpc = "depth"
  /\ workers # <<>>
  /\ \E w \in Range(given.workers) \ Range(workers) : ReportedCrash(w, given.idle_queue)
  /\ \E w \in Range(given.workers) \ Range(workers) : ~ReportedCrash(w, given.idle_queue)

\* The worker w took the SENTINEL, reported it, and its flush_on_term has
\* not raised: it is flushing or has left Worker.run.
RetiresVoluntarily(w) ==
  /\ wpc[w] \in {"term_flush", "exited"}
  /\ hist[w] \in {<<"sentinel", "put_clean">>, <<"sentinel", "put_clean", "flush">>}

\* Every message waiting on idle_queue is one of a voluntary retirement.
OnlyRetirementsReported ==
  /\ idle_queue # <<>>
  /\ \A i \in 1..Len(idle_queue) : RetiresVoluntarily(idle_queue[i].worker)

\* C13: a worker that retires voluntarily never has an error message on
\* idle_queue, and a reconciliation pass that drains only messages of such
\* workers returns scalier 0, so that the adjustment after it spawns no
\* replacement for them; this holds wherever the workers are in their
\* shutdown when the pass runs.
C13_RetirementIsNoCrash ==
  /\ [](\A i \in 1..Len(idle_queue) :
          RetiresVoluntarily(idle_queue[i].worker) => idle_queue[i].error = "")
  /\ [][(mpc = "health" /\ mpc' = "depth" /\ OnlyRetirementsReported)
          => scale_modifier' = 0]_vars

\* C13 witness: a pass has run while a retiring worker was still in its
\* flush; its message is drained, it is no longer tracked, the scalier is 0.
C13_Witness ==
  /\ mpc = "depth"
  /\ scale_modifier = 0
  /\ idle_queue = <<>>
  /\ \E w \in Names :
       /\ wpc[w] = "term_flush"
       /\ hist[w] = <<"sentinel", "put_clean">>
       /\ w \notin Range(workers)

\* The call of check_workload studied on its own has returned.
WorkloadReturned == given.fn = "check_workload" /\ mpc = "adjust"

\* Some message drained by the call studied reports an error.
CrashGiven == \E i \in 1..Len(given.idle_queue) : given.idle_queue[i].error # ""

\* C14 (check_workload on its own): when no crash is reported, the need
\* returned (the baseline need) is +2 for a depth above 100, -1 for a depth
\* below 10, and 0 for a depth from 10 to 100.
C14_BaselineNeed ==
  (WorkloadReturned /\ ~CrashGiven) =>
    /\ given.depth > 100 => need = 2
    /\ given.depth < 10 => need = -1
    /\ (10 <= given.depth /\ given.depth <= 100) => need = 0

\* C14 witness: a call returned +2 for a depth above 100 with no crash.
C14_Witness ==
  /\ WorkloadReturned
  /\ ~CrashGiven
  /\ given.depth > 100
  /\ need = 2

\* The baseline need of the specification for the depth d.
BaselineOf(d) == IF d > 100 THEN 2 ELSE IF d < 10 THEN -1 ELSE 0

\* C15 (check_workload on its own): the need returned is the baseline need
\* of the depth plus the scalier (1 when a crash was reported, else 0), and
\* the list returned is the reconciler's: the list passed in without the
\* workers that reported.
C15_NeedAndReconciledList ==
  WorkloadReturned =>
    /\ need = BaselineOf(given.depth) + (IF CrashGiven THEN 1 ELSE 0)
    /\ Range(workers) = Range(given.workers) \ terminated(given.idle_queue)
    /\ Len(workers) = Cardinality(Range(workers))

\* C15 witness: a call returned 2 + 1 and a list shorter than the one it
\* was given.
C15_Witness ==
  /\ WorkloadReturned
  /\ need = 3
  /\ workers # <<>>
  /\ Len(workers) < Len(given.workers)

\* The call of adjust_worker_count studied on its own has returned.
AdjustReturned == given.fn = "adjust_worker_count" /\ mpc = "produce"

\* The worker processes that exist (Process.start() was called).
Started == {w \in Names : wpc[w] # "unborn"}

\* C16 (adjust_worker_count on its own): with need > 0 and a pool of s
\* workers the call starts exactly min(need, MAX_WORKERS - s) workers (none
\* when s >= MAX_WORKERS), appends each of them to the list after the
\* workers passed in, and puts no SENTINEL on work_queue.
C16_ScaleUpWithinCeiling ==
  (AdjustReturned /\ given.need > 0) =>
    LET s == Len(given.workers)
        k == IF s >= MAX_WORKERS THEN 0
             ELSE IF given.need < MAX_WORKERS - s THEN given.need
             ELSE MAX_WORKERS - s
    IN /\ Len(workers) = s + k
       /\ SubSeq(workers, 1, s) = given.workers
       /\ Started = Range(workers)
       /\ Cardinality(Started) = s + k
       /\ work_queue = given.work_queue

\* C16 witness: a call asked for more workers than the ceiling leaves room
\* for, and started as many as there was room for.
C16_Witness ==
  /\ AdjustReturned
  /\ given.need > MAX_WORKERS - Len(given.workers)
  /\ Len(workers) = MAX_WORKERS
  /\ Len(given.workers) < MAX_WORKERS

\* C17 (adjust_worker_count on its own): with need < 0 and more than one
\* worker in the list the call puts exactly one SENTINEL on work_queue,
\* whatever the value of need, starts no worker and returns the list
\* unchanged.
C17_ScaleDownOneMarker ==
  (AdjustReturned /\ given.need < 0 /\ Len(given.workers) > 1) =>
    /\ work_queue = Append(given.work_queue, SENTINEL)
    /\ workers = given.workers
    /\ Started = Range(given.workers)

\* C17 witness: a call with a need below -1 and a pool of more than one
\* worker has returned, one SENTINEL longer the queue.
C17_Witness ==
  /\ AdjustReturned
  /\ given.need < -1
  /\ Len(given.workers) > 1
  /\ Markers(work_queue) = Markers(given.work_queue) + 1

\* C18 (adjust_worker_count on its own): with need < 0 and exactly one
\* worker in the list the call puts no SENTINEL on work_queue and starts
\* no worker; the list still holds the one worker.
C18_LastWorkerIsKept ==
  (AdjustReturned /\ given.need < 0 /\ Len(given.workers) = 1) =>
    /\ work_queue = given.work_queue
    /\ workers = given.workers
    /\ Started = Range(given.workers)

\* C18 witness: a call with a negative need and a pool of one has returned.
C18_Witness ==
  /\ AdjustReturned
  /\ given.need < 0
  /\ Len(given.workers) = 1
  /\ Len(workers) = 1

\* C19 (adjust_worker_count on its own): with need = 0 the call changes
\* nothing: the list, work_queue and idle_queue are as they were passed in
\* and no worker is started.
C19_ZeroNeedIsNoOp ==
  (AdjustReturned /\ given.need = 0) =>
    /\ workers = given.workers
    /\ work_queue = given.work_queue
    /\ idle_queue = given.idle_queue
    /\ Started = Range(given.workers)

\* C19 witness: a call with need = 0 has returned while there was room
\* under the ceiling and messages were waiting on idle_queue.
C19_Witness ==
  /\ AdjustReturned
  /\ given.need = 0
  /\ Len(given.workers) < MAX_WORKERS
  /\ given.idle_queue # <<>>
  /\ idle_queue = given.idle_queue

\* process_data raised in the worker w (the first thing its history holds,
\* as a worker leaves its loop at the first exception or SENTINEL).
ProcessRaised(w) == hist[w] # <<>> /\ hist[w][1] \in {"raise_empty", "raise_text"}

\* The messages of the worker w on idle_queue.
MessagesOf(w) == {i \in 1..Len(idle_queue) : idle_queue[i].worker = w}

\* C20 (Worker.run on its own, idle_queue not drained): a worker whose
\* process_data raised makes one flush attempt, then puts one message with
\* its name and the text of the error process_data raised, and has exited
\* once the message is put; the text is never that of an error the flush
\* attempt raised, and the message is put whether the flush returned or
\* raised.
C20_CrashReportsOriginalError ==
  \A w \in Names : ProcessRaised(w) =>
    LET put == IF hist[w][1] = "raise_empty" THEN "put_clean" ELSE "put_error"
        done == <<hist[w][1], "flush", put>>
    IN /\ hist[w] \in {SubSeq(done, 1, n) : n \in 1..3}
       /\ wpc[w] = (CASE Len(hist[w]) = 1 -> "exc_flush"
                       [] Len(hist[w]) = 2 -> "exc_put"
                       [] OTHER -> "exited")
       /\ Cardinality(MessagesOf(w)) = (IF Len(hist[w]) = 3 THEN 1 ELSE 0)
       /\ \A i \in MessagesOf(w) :
            /\ idle_queue[i].error \in ExcTexts
            /\ idle_queue[i].error = "" <=> hist[w][1] = "raise_empty"

\* C20 witness: a worker whose process_data raised an error with a text
\* has made its flush attempt, put (name, that text) and exited.
C20_Witness ==
  \E w \in Names :
    /\ hist[w] = <<"raise_text", "flush", "put_error">>
    /\ wpc[w] = "exited"
    /\ \E i \in MessagesOf(w) : idle_queue[i].error # ""

\* C21 (LogWorker in Worker.run): when extract raises ValueError or
\* InvalidToken for the item a worker is processing, process_data handles
\* it: nothing is written to the document store, nothing is put on either
\* queue, and the worker is back at work_queue.get for the next item.
C21_BadItemIsDropped ==
  [][\A w \in Names :
       (wpc[w] = "process" /\ wpc'[w] # "process"
        /\ comp'.extract[w] \in {"ValueError", "InvalidToken"})
       => /\ wpc'[w] = "get"
          /\ comp'.written = comp.written
          /\ idle_queue' = idle_queue
          /\ work_queue' = work_queue
          /\ doh'[w] = NoExc]_vars

\* C21 witness: a worker whose last item failed with InvalidToken has
\* dequeued the next item; nothing was written and nothing reported.
C21_Witness ==
  \E w \in Names :
    /\ comp.kind = "LogWorker"
    /\ comp.extract[w] = "InvalidToken"
    /\ wpc[w] = "process"
    /\ comp.written = 0
    /\ idle_queue = <<>>

\* The call of check_worker_health has ended, by return or by RuntimeError.
DrainEnded == comp.at \in {"returned", "raised"}

\* C22 (the drain loop, workers running beside it, the coordinator
\* scheduled fairly): check_worker_health always ends, whatever idle_queue
\* holds and whatever the workers put on it meanwhile, also when a message
\* the queue announced is not there for the receive; and no receive waits:
\* while the call has not ended one of its steps can be taken.
C22_DrainNeverBlocks ==
  /\ [](~DrainEnded => ENABLED DrainStep)
  /\ <>DrainEnded

\* C22 witness: the call returned after a receive found the announced
\* message missing, leaving that message on idle_queue.
C22_Witness ==
  /\ comp.kind = "drain"
  /\ comp.at = "returned"
  /\ ~comp.there
  /\ idle_queue # <<>>

\* The coordinator is inside a scaling pass (check_workload or
\* adjust_worker_count).
InScalingPass == mpc \in {"health", "depth", "adjust"}

\* C23: produce_work enters a scaling pass exactly in the step that pushes
\* the record with which the count since the last batch boundary reaches
\* PRODUCE_BEFORE_CHECKING while more than PRODUCE_INTERVAL has elapsed
\* since the last pass (or the start of the loop); with fewer records, or
\* at a boundary reached sooner, no pass is entered, and a pass starts the
\* count again, so there is at most one pass per batch.
C23_PassAtBatchBoundaryAfterInterval ==
  [][ /\ (~InScalingPass /\ InScalingPass') <=>
           /\ mpc = "produce"
           /\ work_queue' = Append(work_queue, REC)
           /\ produced + 1 >= PRODUCE_BEFORE_CHECKING
           /\ elapsed > PRODUCE_INTERVAL
      /\ (~InScalingPass /\ InScalingPass') => (mpc' = "health" /\ produced' = 0)
    ]_vars

\* C23 witness: a pass has been entered, more than PRODUCE_INTERVAL after
\* the last one, by the record that completed a batch.
C23_Witness ==
  /\ comp = NoComp
  /\ given = NoCall
  /\ mpc = "health"
  /\ produced = 0
  /\ elapsed > PRODUCE_INTERVAL
  /\ work_queue # <<>>

\* The worker w goes from waiting at work_queue.get to handling an item.
Receives(w) == wpc[w] = "get" /\ wpc'[w] # "get"

C25_ErrorCoolsDownThenExits ==
  [][(mpc = "aborted" /\ mpc' # "aborted")
       => /\ mpc' = "exited"
          /\ comp'.slept = comp.slept + COOLDOWN
          /\ comp'.logged > comp.logged]_vars

\* A step of the coordinator inside produce_work's loop that puts nothing
\* on work_queue and is not the passing of time: the Kafka iterator ended
\* (consumer timeout) and produce_work returned.
ProduceWorkReturns ==
  /\ mpc = "produce"
  /\ work_queue' = work_queue
  /\ wpc' = wpc
  /\ elapsed' # elapsed + 1

\* C26: when produce_work returns on a consumer timeout, process_logs is
\* in produce_work again at once, on the same queues and with the same
\* worker processes, neither sleeping nor exiting, and the next record is
\* put on work_queue as before.
C26_TimeoutIsNotTermination ==
  /\ [][ProduceWorkReturns
          => /\ mpc' = "produce"
             /\ idle_queue' = idle_queue
             /\ produced' = 0
             /\ workers' = pl_workers]_vars
  /\ []((mpc = "produce" /\ Len(work_queue) < MaxQueue) => ENABLED Produce)

\* produce_work was entered again (it tracks process_logs' list although a
\* later worker is running) and has put a record on work_queue since.
C26_Witness ==
  /\ comp = NoComp
  /\ given = NoCall
  /\ mpc = "produce"
  /\ workers = pl_workers
  /\ produced > 0
  /\ work_queue # <<>>
  /\ \E w \in Names : w \notin Range(workers) /\ wpc[w] = "get" /\ hist[w] = <<>>

\* A step of InfluxDB.write.
WriteStep == comp.kind = "InfluxDB" /\ comp'.written = comp.written + 1

\* The condition of write in the state it is called in: with the new point
\* more than StageLimit points are staged, or at least FlushInterval
\* seconds have passed since the last write.
WriteDue ==
  \/ Len(comp.staged) + 1 > StageLimit
  \/ comp.now - comp.last_write >= FlushInterval

\* C27: InfluxDB.write always stages the data point; it posts the staged
\* batch iff its condition holds and has held in an earlier write since
\* construction; the first time the condition holds nothing is posted,
\* nothing is unstaged and only the last-write time is recorded.
C27_WriteStagesAndSendsWhenDue ==
  [][WriteStep =>
       /\ comp'.posts = comp.posts + 1 <=> (WriteDue /\ comp.met > 0)
       /\ comp'.posts \in {comp.posts, comp.posts + 1}
       /\ comp'.posts = comp.posts + 1
            => /\ Len(comp'.payload) = Len(comp.staged) + 1
               /\ comp'.payload[Len(comp'.payload)][2] = comp'.written
       /\ comp'.posts = comp.posts
            => /\ Len(comp'.staged) = Len(comp.staged) + 1
               /\ comp'.staged[Len(comp'.staged)].fields = comp'.written
               /\ SubSeq(comp'.staged, 1, Len(comp.staged)) = comp.staged
       /\ (WriteDue /\ comp.met = 0)
            => /\ comp'.last_write = comp.now
               /\ comp'.payload = comp.payload
       /\ ~WriteDue => comp'.last_write = comp.last_write]_vars

\* The first due write was absorbed by the batch size alone (the clock has
\* not reached the interval), and a later write has posted a batch.
C27_Witness ==
  /\ comp.kind = "InfluxDB"
  /\ comp.op = "write"
  /\ comp.met = 2
  /\ comp.posts = 1
  /\ comp.now < FlushInterval
  /\ comp.staged = <<>>
  /\ Len(comp.payload) = StageLimit + 2

\* A step in which flush posts a payload, called on its own or by write.
FlushStep == comp.kind = "InfluxDB" /\ comp'.posts = comp.posts + 1

\* The number of points staged when that flush is entered: write has
\* staged its point before it calls flush.
StagedAtFlush == Len(comp.staged) + (IF comp'.op = "write" THEN 1 ELSE 0)

\* C28: InfluxDB.flush raises InfluxError exactly when the response is not
\* OK, and then the staged points and the last-write time are as they were
\* when flush was entered; after a successful flush nothing is staged and
\* the posted payload has one line per point that was staged, in staging
\* order.
C28_FlushKeepsPointsOnError ==
  [][FlushStep =>
       /\ comp'.result = "InfluxError" <=> ~comp'.resp_ok
       /\ comp'.result \in {"InfluxError", "returned"}
       /\ comp'.result = "InfluxError"
            => /\ Len(comp'.staged) = StagedAtFlush
               /\ SubSeq(comp'.staged, 1, Len(comp.staged)) = comp.staged
               /\ comp'.op = "write" => comp'.staged[StagedAtFlush].fields = comp'.written
               /\ comp'.last_write = comp.last_write
       /\ comp'.result = "returned" => comp'.staged = <<>>
       /\ Len(comp'.payload) = StagedAtFlush
       /\ \A i \in 1..Len(comp.staged) :
            /\ comp'.payload[i][2] = comp.staged[i].fields
            /\ comp'.payload[i][3] = comp.staged[i].timestamp
            /\ comp'.payload[i][1] = IF comp.staged[i].tags = None THEN <<Measurement>>
                                      ELSE <<Measurement, comp.staged[i].tags>>
       /\ comp'.op = "write" => comp'.payload[StagedAtFlush][2] = comp'.written]_vars

\* A flush failed with several points staged and a last-write time
\* recorded, and the points are still staged.
C28_Witness ==
  /\ comp.kind = "InfluxDB"
  /\ comp.result = "InfluxError"
  /\ ~comp.resp_ok
  /\ Len(comp.staged) >= 2
  /\ Len(comp.payload) = Len(comp.staged)
  /\ comp.last_write > 0

\* A call of spawn_workers, and a call of respawn_workers.
SpawnCall == comp.kind = "exporter" /\ comp'.op = "spawn" /\ comp' # comp
RespawnCall == comp.kind = "exporter" /\ comp'.op = "respawn" /\ comp' # comp

\* The entry of container n holds an exporter created in this step, alive
\* and following n.
FreshExporter(n) ==
  /\ comp'.workers[n] > Len(comp.threads)
  /\ comp'.workers[n] \in comp'.alive
  /\ comp'.threads[comp'.workers[n]].name = n

\* C29: spawn_workers creates an exporter exactly for the running
\* containers without an entry in the workers map; respawn_workers
\* replaces exactly the entries whose thread is not alive and whose
\* container is running; no container has two live exporters.
C29_OneExporterPerRunningContainer ==
  /\ [][/\ SpawnCall =>
             /\ \A n \in Containers :
                  IF n \in comp.running /\ comp.workers[n] = 0
                    THEN FreshExporter(n)
                    ELSE comp'.workers[n] = comp.workers[n]
             /\ Len(comp'.threads) - Len(comp.threads)
                  = Cardinality({n \in comp.running : comp.workers[n] = 0})
        /\ RespawnCall =>
             /\ \A n \in Containers :
                  IF /\ comp.workers[n] # 0
                     /\ comp.workers[n] \notin comp.alive
                     /\ n \in comp.running
                    THEN FreshExporter(n)
                    ELSE comp'.workers[n] = comp.workers[n]
             /\ comp.alive \subseteq comp'.alive]_vars
  /\ [](comp.kind = "exporter" =>
          \A t, u \in comp.alive : comp.threads[t].name = comp.threads[u].name => t = u)

\* The line read in a step of run.
LineRead == comp.kind = "run" /\ comp'.read = comp.read + 1

\* C30: a line that begins with a space joins the current message and
\* nothing is sent; a line that does not, arriving while a message is
\* open, has that message handed to Kafka as one payload, its lines
\* concatenated in order, and becomes the first line of a new message
\* (with no message open it only starts one).
C30_LinesGroupIntoMessages ==
  [][LineRead =>
       LET last == comp'.lines[Len(comp'.lines)]
       IN  IF comp'.sent = comp.sent
             THEN /\ comp'.lines = Append(comp.lines, last)
                  /\ last[2] = Digit[comp'.read]
                  /\ last[1] = " " \/ comp.lines = <<>>
                  /\ comp'.at = "running"
             ELSE /\ comp.lines # <<>>
                  /\ comp'.sent = Append(comp.sent,
                       <<"fernet", [name |-> comp.name, log |-> join(comp.lines)]>>)
                  /\ Len(join(comp.lines)) = 2 * Len(comp.lines)
                  /\ \A i \in 1..Len(comp.lines) :
                       /\ join(comp.lines)[2 * i - 1] = comp.lines[i][1]
                       /\ join(comp.lines)[2 * i] = comp.lines[i][2]
                  /\ comp'.at = "running"
                       => (comp'.lines = <<last>> /\ last = <<"E", Digit[comp'.read]>>)
                  /\ comp'.at # "running" => comp'.lines = comp.lines]_vars

\* Two messages were sent, the second of three lines, and another message
\* is open.
C30_Witness ==
  /\ comp.kind = "run"
  /\ comp.at = "running"
  /\ Len(comp.sent) = 2
  /\ Len(comp.sent[2][2].log) = 6
  /\ Len(comp.lines) = 1

\* The number of sent messages whose payload holds the k-th line read.
MessagesWithLine(k) ==
  Cardinality({m \in 1..Len(comp.sent) :
                 \E i \in 1..Len(comp.sent[m][2].log) : comp.sent[m][2].log[i] = Digit[k]})

\* C38: once the log stream has ended or the loop has stopped on an error,
\* every line read from the stream has been sent to Kafka in exactly one
\* message.
C38_NoLineIsDropped ==
  (comp.kind = "run" /\ comp.at = "terminated")
    => \A k \in 1..comp.read : MessagesWithLine(k) = 1

\* C33 (check_worker_health on its own): the call raises the fatal abort
\* only when the list of tracked workers is not empty and every tracked
\* worker has a crash message among the drained ones.
C33_AbortOnlyWhenAllTrackedCrashed ==
  (HealthCallEnded /\ mpc = "aborted")
    => /\ given.workers # <<>>
       /\ \A w \in Range(given.workers) : ReportedCrash(w, given.idle_queue)

\* The reconciler of the pass studied drained a crash message.
CrashObserved ==
  /\ given.fn = "scaling pass"
  /\ \E i \in 1..Len(given.idle_queue) : given.idle_queue[i].error # ""

\* C36: in a scaling pass whose reconciler observed a crash and did not
\* abort, the combined need is >= 0 whatever the depth, and the adjustment
\* puts no SENTINEL on work_queue.
C36_CrashPassNeverScalesDown ==
  /\ []((CrashObserved /\ mpc \in {"adjust", "produce"})
          => /\ need >= 0
             /\ \A i \in 1..Len(work_queue) : work_queue[i] # SENTINEL)
  /\ [][(CrashObserved /\ mpc = "adjust") => work_queue' = work_queue]_vars

\* A pass that observed a crash at a depth below the scale-down threshold
\* with two workers tracked has ended: need was 0, no marker was enqueued.
C36_Witness ==
  /\ CrashObserved
  /\ mpc = "produce"
  /\ given.depth < SCALE_DOWN_DEPTH
  /\ Len(workers) > 1
  /\ work_queue = Records(given.depth)

\* The list b is the list a with workers appended.
Extends(a, b) == Len(a) <= Len(b) /\ SubSeq(b, 1, Len(a)) = a

\* C35: a scaling pass goes through its steps in sequence: the drain of
\* idle_queue with the reconciliation of the tracked list, then the sample
\* of the depth of work_queue, then the adjustment, applied to the
\* reconciled list; between passes of one produce_work run the tracked list
\* is the one the adjustment returned; the interval timer restarts only at
\* the end of a pass (or with a new run), the record counter at every
\* batch boundary.
C35_PassStepsInSequence ==
  [][/\ (mpc = "health" /\ mpc' # mpc)
          => /\ mpc' \in {"depth", "aborted"}
             /\ idle_queue' = <<>>
             /\ work_queue' = work_queue
             /\ mpc' = "depth" => Range(workers') = Range(workers) \ terminated(idle_queue)
     /\ (mpc = "depth" /\ mpc' # mpc)
          => /\ mpc' = "adjust"
             /\ workers' = workers
             /\ work_queue' = work_queue
             /\ need' = needed_workers(Len(work_queue), DepthHigh, DepthLow) + scale_modifier
     /\ (mpc = "adjust" /\ mpc' # mpc)
          => /\ mpc' = "produce"
             /\ Extends(workers, workers')
             /\ elapsed' = 0
     /\ (mpc = "produce" /\ mpc' # mpc) => mpc' = "health"
     /\ (mpc # "health" /\ mpc' = "health") => workers' = workers
     /\ (workers' # workers)
          => \/ mpc \in {"health", "adjust"}
             \/ ProduceWorkReturns
     /\ (elapsed' < elapsed) => (mpc = "adjust" \/ ProduceWorkReturns)
     /\ (mpc = "produce" /\ work_queue' = Append(work_queue, REC)
           /\ produced + 1 >= PRODUCE_BEFORE_CHECKING) => produced' = 0]_vars

\* A second pass of the same produce_work run begins on the list the
\* first pass's adjustment returned, the interval having elapsed again.
C35_Witness ==
  /\ comp = NoComp
  /\ given = NoCall
  /\ mpc = "health"
  /\ workers = <<1, 2>>
  /\ Len(workers) > Len(pl_workers)
  /\ produced = 0
  /\ elapsed > PRODUCE_INTERVAL

\* The item at the front of work_queue is a record.
RecordAtFront == work_queue # <<>> /\ Head(work_queue) = REC

\* A worker takes the record at the front of work_queue.
RecordDequeued ==
  /\ RecordAtFront
  /\ work_queue' = Tail(work_queue)
  /\ \E w \in Names : wpc[w] = "get" /\ wpc'[w] = "process"

DoWorkCall == comp.kind = "collectors" /\ comp'.op = "do_work" /\ comp' # comp

C32_DeadCollectorIsRespawned ==
  [][(comp.kind = "collectors" /\ comp'.op = "do_work")
       => \A u \in Tracked(comp.user_collectors) \cap comp.users :
            comp.user_collectors[u] \notin comp.alive
              => /\ comp'.user_collectors[u] > Len(comp.threads)
                 /\ comp'.user_collectors[u] \in comp'.alive]_vars

\* The point p is in the shared list of staged points.
IsStaged(p) == \E i \in 1..Len(comp.staged) : comp.staged[i].fields = p

\* C37: with one InfluxDB object shared by several collector threads, no
\* data point is lost: every point passed to write is in exactly one
\* payload that InfluxDB accepted, or is still staged.
C37_NoPointIsLost ==
  comp.kind = "InfluxDB shared"
    => \A p \in 1..comp.written :
         /\ comp.posted[p] <= 1
         /\ comp.posted[p] = 1 \/ IsStaged(p)

====
